---------------------------- MODULE Spec2Model ----------------------------
(***************************************************************************)
(* A model of github_tools.py: the GitHubAPI client (three read operations *)
(* over HTTP GET) and the command dispatcher main().  One behaviour of the *)
(* model is one run of main(); the remote API is the environment, which    *)
(* answers every request with a failure or with a JSON body.               *)
(*                                                                         *)
(* JSON values are tagged records [t, v].  A JSON string is carried in one *)
(* of three forms, according to what the program does with it:             *)
(*   "string"  a TLA+ string (only compared, concatenated, passed through),*)
(*   "segs"    the sequence of its "/"-separated segments (a path, which   *)
(*             the program splits on "/"),                                 *)
(*   "chars"   the sequence of its characters (base64 text, which the      *)
(*             program decodes character by character).                    *)
(* Decoded text is a "text" value: the sequence of its code points.        *)
(***************************************************************************)
EXTENDS Integers, Sequences, FiniteSets, TLC

VARIABLES
    args,     \* sys.argv[1:]
    env,      \* the GITHUB_TOKEN variable of the environment
    pc,       \* where the run is
    headers,  \* GitHubAPI.headers
    result,   \* the variable result of main
    exc,      \* the exception in flight, once one was raised
    opEnd,    \* the client operation: "none", "running", "returned", "raised"
    branch,   \* the variable branch of the operation
    http,     \* the requests sent and the answers received, in order
    log,      \* the records given to logging.error, kept apart from what
              \* print writes
    stdout,   \* what print wrote to sys.stdout
    stderr    \* what print wrote to sys.stderr

vars == <<args, env, pc, headers, result, exc, opEnd, branch,
          http, log, stdout, stderr>>

(***************************************************************************)
(* Bounds of the model.                                                    *)
(***************************************************************************)
MaxRepos == 2
MaxTree == 2

(***************************************************************************)
(* JSON values.                                                            *)
(***************************************************************************)
JNull == [t |-> "null", v |-> 0]
JBool(b) == [t |-> "bool", v |-> b]
JStr(s) == [t |-> "string", v |-> s]
JSegs(s) == [t |-> "segs", v |-> s]
JChars(s) == [t |-> "chars", v |-> s]
JText(s) == [t |-> "text", v |-> s]
JArr(s) == [t |-> "array", v |-> s]
JObj(r) == [t |-> "object", v |-> r]
EmptyObj == JObj([k \in {} |-> JNull])

IsObj(j) == j.t = "object"

\* Python's "k in x": a key of a dict, an item of a list.
Has(j, k) ==
    CASE j.t = "object" -> k \in DOMAIN j.v
      [] j.t = "array" -> \E i \in 1..Len(j.v) : j.v[i] = JStr(k)
      [] OTHER -> FALSE

\* Python truth value of a JSON value ("if not x").
Truthy(j) ==
    CASE j.t = "null" -> FALSE
      [] j.t = "bool" -> j.v
      [] j.t = "number" -> j.v # 0
      [] j.t = "string" -> j.v # ""
      [] j.t = "segs" -> j.v # <<"">>
      [] j.t \in {"chars", "text", "array"} -> Len(j.v) > 0
      [] j.t = "object" -> DOMAIN j.v # {}

\* dict.get(key, default)
DictGet(j, k, default) == IF Has(j, k) THEN j.v[k] ELSE default

\* str.join over a sequence of strings.
RECURSIVE JoinWith(_, _)
JoinWith(sep, s) ==
    IF Len(s) = 0 THEN ""
    ELSE IF Len(s) = 1 THEN s[1]
    ELSE s[1] \o sep \o JoinWith(sep, Tail(s))

\* The text an f-string or str() makes of a JSON string value.
StrOf(j) ==
    CASE j.t = "string" -> j.v
      [] j.t = "segs" -> JoinWith("/", j.v)
      [] j.t = "chars" -> JoinWith("", j.v)
      [] j.t = "null" -> "None"
      [] OTHER -> "?"

(***************************************************************************)
(* Exceptions: a class name and the text of str(e).                        *)
(***************************************************************************)
Exc(type, msg) == [type |-> type, msg |-> msg]
NoExc == Exc("", "")

RequestExceptions == {"HTTPError", "ConnectionError", "Timeout", "JSONDecodeError"}
IsRequestException(e) == e.type \in RequestExceptions


(***************************************************************************)
(* base64.b64decode (line 49), as binascii.a2b_base64 computes it in its   *)
(* default, non-strict mode: characters outside the alphabet are skipped,  *)
(* a pad that completes a quad ends the scan, an incomplete quad is an     *)
(* error.                                                                  *)
(***************************************************************************)
B64Alphabet ==
    << "A","B","C","D","E","F","G","H","I","J","K","L","M","N","O","P",
       "Q","R","S","T","U","V","W","X","Y","Z","a","b","c","d","e","f",
       "g","h","i","j","k","l","m","n","o","p","q","r","s","t","u","v",
       "w","x","y","z","0","1","2","3","4","5","6","7","8","9","+","/" >>

InAlphabet(c) == \E i \in 1..64 : B64Alphabet[i] = c
B64Value(c) == (CHOOSE i \in 1..64 : B64Alphabet[i] = c) - 1

\* st = [quad_pos, leftchar, pads, out, done]
B64Step(st, c) ==
    IF st.done THEN st
    ELSE IF c = "="
    THEN IF st.quad_pos >= 2 /\ st.quad_pos + st.pads + 1 >= 4
         THEN [st EXCEPT !.done = TRUE]
         ELSE IF st.quad_pos >= 2
              THEN [st EXCEPT !.pads = st.pads + 1]
              ELSE st
    ELSE IF ~InAlphabet(c) THEN st
    ELSE LET v == B64Value(c) IN
         CASE st.quad_pos = 0 ->
                [st EXCEPT !.quad_pos = 1, !.leftchar = v, !.pads = 0]
           [] st.quad_pos = 1 ->
                [st EXCEPT !.quad_pos = 2, !.pads = 0,
                           !.out = Append(st.out, st.leftchar * 4 + v \div 16),
                           !.leftchar = v % 16]
           [] st.quad_pos = 2 ->
                [st EXCEPT !.quad_pos = 3, !.pads = 0,
                           !.out = Append(st.out, st.leftchar * 16 + v \div 4),
                           !.leftchar = v % 4]
           [] st.quad_pos = 3 ->
                [st EXCEPT !.quad_pos = 0, !.pads = 0,
                           !.out = Append(st.out, st.leftchar * 64 + v),
                           !.leftchar = 0]

RECURSIVE B64Scan(_, _)
B64Scan(st, cs) ==
    IF Len(cs) = 0 THEN st ELSE B64Scan(B64Step(st, Head(cs)), Tail(cs))

\* [ok |-> TRUE, bytes |-> ...] or [ok |-> FALSE, exc |-> ...]
b64decode(j) ==
    IF j.t # "chars"
    THEN [ok |-> FALSE, bytes |-> <<>>,
          exc |-> Exc("TypeError",
                      "argument should be a bytes-like object or ASCII string")]
    ELSE LET st == B64Scan([quad_pos |-> 0, leftchar |-> 0, pads |-> 0,
                            out |-> <<>>, done |-> FALSE], j.v)
         IN  IF st.done \/ st.quad_pos = 0
             THEN [ok |-> TRUE, bytes |-> st.out, exc |-> NoExc]
             ELSE IF st.quad_pos = 1
             THEN [ok |-> FALSE, bytes |-> <<>>,
                   exc |-> Exc("binascii.Error",
                       "Invalid base64-encoded string: number of data characters ("
                       \o ToString((Len(st.out) \div 3) * 4 + 1)
                       \o ") cannot be 1 more than a multiple of 4")]
             ELSE [ok |-> FALSE, bytes |-> <<>>,
                   exc |-> Exc("binascii.Error", "Incorrect padding")]

(***************************************************************************)
(* bytes.decode("utf-8") (line 49): the code points of a well-formed       *)
(* UTF-8 byte sequence, or UnicodeDecodeError.                             *)
(***************************************************************************)
IsCont(b) == b >= 128 /\ b <= 191

\* Number of bytes of the sequence that starts bs, or 0 when it is ill-formed.
Utf8Width(bs) ==
    LET b == bs[1] IN
    IF b < 128 THEN 1
    ELSE IF b >= 194 /\ b <= 223
    THEN IF Len(bs) >= 2 /\ IsCont(bs[2]) THEN 2 ELSE 0
    ELSE IF b >= 224 /\ b <= 239
    THEN IF /\ Len(bs) >= 3 /\ IsCont(bs[2]) /\ IsCont(bs[3])
            /\ (b = 224 => bs[2] >= 160)
            /\ (b = 237 => bs[2] <= 159)
         THEN 3 ELSE 0
    ELSE IF b >= 240 /\ b <= 244
    THEN IF /\ Len(bs) >= 4 /\ IsCont(bs[2]) /\ IsCont(bs[3]) /\ IsCont(bs[4])
            /\ (b = 240 => bs[2] >= 144)
            /\ (b = 244 => bs[2] <= 143)
         THEN 4 ELSE 0
    ELSE 0

Utf8CodePoint(bs, w) ==
    CASE w = 1 -> bs[1]
      [] w = 2 -> (bs[1] - 192) * 64 + (bs[2] - 128)
      [] w = 3 -> (bs[1] - 224) * 4096 + (bs[2] - 128) * 64 + (bs[3] - 128)
      [] w = 4 -> (bs[1] - 240) * 262144 + (bs[2] - 128) * 4096
                  + (bs[3] - 128) * 64 + (bs[4] - 128)

RECURSIVE Utf8Scan(_, _)
Utf8Scan(bs, acc) ==
    IF Len(bs) = 0 THEN [ok |-> TRUE, text |-> acc]
    ELSE LET w == Utf8Width(bs) IN
         IF w = 0 THEN [ok |-> FALSE, text |-> <<>>]
         ELSE Utf8Scan(SubSeq(bs, w + 1, Len(bs)),
                       Append(acc, Utf8CodePoint(bs, w)))

utf8_decode(bs) ==
    LET r == Utf8Scan(bs, <<>>) IN
    IF r.ok THEN [ok |-> TRUE, text |-> r.text, exc |-> NoExc]
    ELSE [ok |-> FALSE, text |-> <<>>,
          exc |-> Exc("UnicodeDecodeError",
                      "'utf-8' codec can't decode bytes")]

(***************************************************************************)
(* GitHubAPI: the pure part of each operation.                             *)
(***************************************************************************)
BASE_URL == "https://api.github.com"

Url(endpoint) == BASE_URL \o "/" \o endpoint

NoHeaders == [Authorization |-> "", Accept |-> ""]

\* __init__ (the caller has checked that the token is not empty)
GitHubAPI_init(token) ==
    [Authorization |-> "token " \o token,
     Accept |-> "application/vnd.github+json"]

ErrorResult(msg) == JObj([error |-> JStr(msg)])

\* Variant of HasPush: any permissions record admits the repository.
HasPermissions(repo) == Truthy(DictGet(repo, "permissions", EmptyObj))

\* the filter of get_repositories
HasPush(repo) ==
    Truthy(DictGet(DictGet(repo, "permissions", EmptyObj), "push", JNull))

get_repositories_result(all_repos) ==
    IF Truthy(all_repos)
    THEN JArr(SelectSeq(all_repos.v, HasPush))
    ELSE JArr(<<>>)

\* Variant of default_branch: the details are not consulted.
default_branch_fixed(details) == "main"

\* repository_details.get("default_branch", "main"), as the f-strings print it
default_branch(details) == StrOf(DictGet(details, "default_branch", JStr("main")))

DetailEndpoint(repo) == "repos/" \o repo
ContentsEndpoint(repo, path, br) ==
    "repos/" \o repo \o "/contents/" \o path \o "?ref=" \o br
TreeEndpoint(repo, br) ==
    "repos/" \o repo \o "/git/trees/" \o br \o "?recursive=1"

\* The except clauses of get_file_content, in their order.
get_file_content_except(e) ==
    IF e.type \in {"UnicodeDecodeError", "TypeError"}
    THEN ErrorResult("Failed to decode file content")
    ELSE ErrorResult("Error fetching file: " \o e.msg)

\* The body of the try block of get_file_content after the request returned
\* file_data: the value returned, or the exception raised inside the block.
\* For a list body (the listing of a directory) "content" not in file_data
\* tests the items, which are objects, so the file counts as not found.
get_file_content_body(fd, path, br) ==
    IF ~Truthy(fd) \/ ~Has(fd, "content")
    THEN [ok |-> TRUE, exc |-> NoExc,
          value |-> ErrorResult("File '" \o path \o "' not found on branch '"
                                \o br \o "'")]
    ELSE IF ~IsObj(fd)
    THEN [ok |-> FALSE, value |-> JNull,
          exc |-> Exc("TypeError", "list indices must be integers or slices, not str")]
    ELSE LET raw == b64decode(fd.v["content"])
             dec == utf8_decode(raw.bytes)
         IN  IF ~raw.ok THEN [ok |-> FALSE, exc |-> raw.exc, value |-> JNull]
             ELSE IF ~dec.ok THEN [ok |-> FALSE, exc |-> dec.exc, value |-> JNull]
             ELSE IF ~Has(fd, "path")
             THEN [ok |-> FALSE, exc |-> Exc("KeyError", "'path'"), value |-> JNull]
             ELSE IF ~Has(fd, "url")
             THEN [ok |-> FALSE, exc |-> Exc("KeyError", "'url'"), value |-> JNull]
             ELSE [ok |-> TRUE, exc |-> NoExc,
                   value |-> JObj([path |-> fd.v["path"],
                                   content |-> JText(dec.text),
                                   url |-> fd.v["url"]])]

\* The try block of get_file_content with its except clauses.
get_file_content_result(fd, path, br) ==
    LET r == get_file_content_body(fd, path, br) IN
    IF r.ok THEN r.value ELSE get_file_content_except(r.exc)

\* One item of the comprehension of list_files_in_repository.
ItemExc(item) ==
    IF ~Has(item, "path") THEN Exc("KeyError", "'path'")
    ELSE IF item.v["path"].t # "segs"
    THEN Exc("AttributeError", "object has no attribute 'split'")
    ELSE IF ~Has(item, "type") THEN Exc("KeyError", "'type'")
    ELSE NoExc

FileEntry(item) ==
    LET segs == item.v["path"].v IN
    JObj([name |-> JSegs(<<segs[Len(segs)]>>),
          type |-> item.v["type"],
          path |-> item.v["path"]])

list_files_except(e) == ErrorResult("Error listing files: " \o e.msg)

list_files_body(contents) ==
    IF ~Truthy(contents) \/ ~Has(contents, "tree")
    THEN [ok |-> TRUE, exc |-> NoExc, value |-> JArr(<<>>)]
    ELSE LET items == contents.v["tree"].v
             bad == {i \in 1..Len(items) : ItemExc(items[i]) # NoExc}
         IN  IF bad # {}
             THEN [ok |-> FALSE, value |-> JNull,
                   exc |-> ItemExc(items[CHOOSE i \in bad : \A j \in bad : i <= j])]
             ELSE [ok |-> TRUE, exc |-> NoExc,
                   value |-> JArr([i \in 1..Len(items) |-> FileEntry(items[i])])]

list_files_result(contents) ==
    LET r == list_files_body(contents) IN
    IF r.ok THEN r.value ELSE list_files_except(r.exc)

(***************************************************************************)
(* The inputs of a run: the argument list, the environment, and what the   *)
(* remote API answers.  Bodies have the shapes the API documents for each  *)
(* endpoint, and the empty body the code tests for.                        *)
(***************************************************************************)
SeqsUpTo(S, n) == UNION {[1..k -> S] : k \in 0..n}

ArgLists ==
    { <<>>,
      <<"list-repos">>,
      <<"list-repos", "extra">>,
      <<"list-files">>,
      <<"list-files", "acme/repo">>,
      <<"get-file-content">>,
      <<"get-file-content", "acme/repo">>,
      <<"get-file-content", "acme/repo", "src/a.go">>,
      <<"delete-repo", "acme/repo">>,
      <<"">> }

\* os.getenv("GITHUB_TOKEN"): unset, set to the empty string, set.
Environments ==
    { [present |-> FALSE, value |-> ""],
      [present |-> TRUE, value |-> ""],
      [present |-> TRUE, value |-> "ghp_token"] }

Ok(body) == [ok |-> TRUE, body |-> body, exc |-> NoExc]
Fail(e) == [ok |-> FALSE, body |-> JNull, exc |-> e]

\* What requests.get / raise_for_status / response.json raise.
Failures ==
    { Fail(Exc("HTTPError", "404 Client Error: Not Found")),
      Fail(Exc("ConnectionError", "Connection refused")) }

Repos ==
    { JObj([full_name |-> JStr("acme/repo"),
            permissions |-> JObj([pull |-> JBool(TRUE), push |-> JBool(TRUE)])]),
      JObj([full_name |-> JStr("acme/docs"),
            permissions |-> JObj([pull |-> JBool(TRUE), push |-> JBool(FALSE)])]),
      JObj([full_name |-> JStr("acme/site"),
            permissions |-> JObj([pull |-> JBool(TRUE)])]),
      JObj([full_name |-> JStr("acme/old")]) }

ReposResponses ==
    Failures \cup {Ok(JArr(rs)) : rs \in SeqsUpTo(Repos, MaxRepos)}

DetailResponses ==
    Failures \cup
    { Ok(EmptyObj),
      Ok(JObj([full_name |-> JStr("acme/repo"), default_branch |-> JStr("main")])),
      Ok(JObj([full_name |-> JStr("acme/repo"), default_branch |-> JStr("develop")])),
      Ok(JObj([full_name |-> JStr("acme/repo")])) }

TreeItems ==
    { JObj([path |-> JSegs(<<"src", "a.go">>), type |-> JStr("blob")]),
      JObj([path |-> JSegs(<<"src">>), type |-> JStr("tree")]),
      JObj([type |-> JStr("blob")]) }

TreeResponses ==
    Failures \cup
    { Ok(EmptyObj), Ok(JObj([message |-> JStr("Not Found")])) } \cup
    { Ok(JObj([sha |-> JStr("9fb037"), tree |-> JArr(items)])) :
        items \in SeqsUpTo(TreeItems, MaxTree) }

FileUrl == JStr("https://api.github.com/repos/acme/repo/contents/src/a.go")

Contents ==
    { JChars(<<"a", "G", "k", "=", "\n">>),       \* "hi"
      JChars(<<"w", "6", "k", "=">>),             \* U+00E9
      JChars(<<"/", "w", "=", "=">>),             \* byte FF: not UTF-8
      JChars(<<"a", "G", "k">>),                  \* incomplete quad
      JChars(<<>>),
      JNull }

ContentsResponses ==
    Failures \cup
    { Ok(EmptyObj),
      Ok(JArr(<<JObj([path |-> JSegs(<<"src", "a.go">>), type |-> JStr("file")])>>)),
      Ok(JObj([path |-> JSegs(<<"src", "a.go">>), url |-> FileUrl])),
      Ok(JObj([content |-> JChars(<<"a", "G", "k", "=">>), url |-> FileUrl])) } \cup
    { Ok(JObj([path |-> JSegs(<<"src", "a.go">>), url |-> FileUrl, content |-> c])) :
        c \in Contents }

(***************************************************************************)
(* GitHubAPI: what each operation does with the answer to a request.  An   *)
(* outcome says how the operation goes on: it returns a value, it raises   *)
(* (the exception leaves the operation), or it continues to its second     *)
(* request on a branch.                                                    *)
(***************************************************************************)
Return(value) == [kind |-> "return", value |-> value, exc |-> NoExc, branch |-> ""]
Raise(e) == [kind |-> "raise", value |-> JNull, exc |-> e, branch |-> ""]
Continue(br) == [kind |-> "continue", value |-> JNull, exc |-> NoExc, branch |-> br]

\* get_repositories: the request is not inside a try block.
get_repositories_outcome(r) ==
    IF ~r.ok THEN Raise(r.exc)
    ELSE Return(get_repositories_result(r.body))

\* Variant of get_file_content_details: an empty details body is not tested,
\* and the operation goes on to the contents request.
get_file_content_details_unchecked(r) ==
    IF ~r.ok THEN Raise(r.exc)
    ELSE Continue(default_branch(r.body))

\* get_file_content, lines 39-43: the details request is not inside the try block.
get_file_content_details(r) ==
    IF ~r.ok THEN Raise(r.exc)
    ELSE IF ~Truthy(r.body) THEN Return(ErrorResult("Repository not found"))
    ELSE Continue(default_branch(r.body))

\* get_file_content, lines 44-54: the contents request is inside the try block.
get_file_content_contents(r, path, br) ==
    IF ~r.ok THEN Return(get_file_content_except(r.exc))
    ELSE Return(get_file_content_result(r.body, path, br))

\* list_files_in_repository, lines 57-61
list_files_details(r) ==
    IF ~r.ok THEN Raise(r.exc)
    ELSE IF ~Truthy(r.body) THEN Return(ErrorResult("Repository not found"))
    ELSE Continue(default_branch(r.body))

\* Variant of list_files_tree: the tree request is outside the try block, so
\* its failure leaves the operation.
list_files_tree_unguarded(r) ==
    IF ~r.ok THEN Raise(r.exc)
    ELSE Return(list_files_result(r.body))

\* list_files_in_repository, lines 62-69
list_files_tree(r) ==
    IF ~r.ok THEN Return(list_files_except(r.exc))
    ELSE Return(list_files_result(r.body))

(***************************************************************************)
(* _get: the request goes out; later the answer comes back, and a failure  *)
(* is logged before it is raised again.                                    *)
(***************************************************************************)
Send(endpoint) ==
    http' = Append(http, [ev |-> "request", url |-> Url(endpoint),
                          auth |-> headers.Authorization,
                          ok |-> TRUE, body |-> JNull, exc |-> NoExc])

Receive(endpoint, r) ==
    /\ http' = Append(http, [ev |-> "response", url |-> Url(endpoint),
                             auth |-> headers.Authorization,
                             ok |-> r.ok, body |-> r.body, exc |-> r.exc])
    /\ log' = IF ~r.ok /\ IsRequestException(r.exc)
              THEN Append(log, "Error fetching data from GitHub: " \o r.exc.msg)
              ELSE log

(***************************************************************************)
(* Output.                                                                 *)
(***************************************************************************)
USAGE ==
    "\nGitHub API Tool for Windsurf\nUsage: python github_tools.py <command> <args>\n\nCommands:\n    list-repos                    List all repositories for the authenticated user\n    list-files <repo_name>        List all files in a repository\n    get-file-content <repo_name> <file_path>  Get the content of a file\n    "

TextItem(text) == [kind |-> "text", text |-> text, json |-> JNull]
UsageItem == [kind |-> "usage", text |-> USAGE, json |-> JNull]
\* print(json.dumps(value, indent=2)): the JSON document of value
JsonItem(value) == [kind |-> "json", text |-> "", json |-> value]

\* print_usage()
print_usage(err) == Append(err, UsageItem)

(***************************************************************************)
(* main                                                                    *)
(***************************************************************************)
command == args[1]
repo_name == args[2]
file_path == args[3]

\* Variant of TokenMissing: "if github_token is None".
TokenUnset(e) == ~e.present

\* "if not github_token"
TokenMissing(e) == ~e.present \/ e.value = ""

\* Variant of MainCatches: the handler of main names the lookup errors only.
MainCatchesLookupErrors(e) == e.type \in {"KeyError", "IndexError"}

\* "except Exception" of main: every exception of the model is an Exception.
MainCatches(e) == TRUE

\* Where main goes on when the client operation ends with outcome o.
AfterCall(o) ==
    CASE o.kind = "return" ->
            /\ result' = o.value
            /\ opEnd' = "returned"
            /\ pc' = "print"
            /\ UNCHANGED exc
      [] o.kind = "raise" ->
            /\ exc' = o.exc
            /\ opEnd' = "raised"
            /\ pc' = IF MainCatches(o.exc) THEN "except" ELSE "crashed"
            /\ UNCHANGED result

Init ==
    /\ args \in ArgLists
    /\ env \in Environments
    /\ pc = "main"
    /\ headers = NoHeaders
    /\ result = JNull
    /\ exc = NoExc
    /\ opEnd = "none"
    /\ branch = ""
    /\ http = <<>>
    /\ log = <<>>
    /\ stdout = <<>>
    /\ stderr = <<>>

\* lines 84-87
main_args ==
    /\ pc = "main"
    /\ IF Len(args) = 0
       THEN /\ stderr' = print_usage(stderr)
            /\ pc' = "done"
       ELSE /\ pc' = "env"
            /\ UNCHANGED stderr
    /\ UNCHANGED <<args, env, headers, result, exc, opEnd, branch, http, log, stdout>>

\* lines 89-97
main_env ==
    /\ pc = "env"
    /\ IF TokenMissing(env)
       THEN /\ log' = Append(log, "GITHUB_TOKEN not found in environment variables")
            /\ pc' = "done"
            /\ UNCHANGED <<headers, result, exc>>
       ELSE IF env.value = ""
       THEN \* GitHubAPI.__init__ raises, outside the try block of main
            /\ exc' = Exc("ValueError", "GitHub token is required")
            /\ pc' = "crashed"
            /\ UNCHANGED <<headers, result, log>>
       ELSE /\ headers' = GitHubAPI_init(env.value)
            /\ result' = EmptyObj
            /\ pc' = "dispatch"
            /\ UNCHANGED <<exc, log>>
    /\ UNCHANGED <<args, env, opEnd, branch, http, stdout, stderr>>

\* Variant of main_dispatch: the command is not examined and its arguments are
\* not validated; every command lists the repositories.
main_dispatch_unvalidated ==
    /\ pc = "dispatch"
    /\ pc' = "repos_send"
    /\ opEnd' = "running"
    /\ UNCHANGED <<args, env, headers, result, exc, branch, http, log, stdout, stderr>>

\* lines 99-119
main_dispatch ==
    /\ pc = "dispatch"
    /\ CASE command = "list-repos" ->
               /\ pc' = "repos_send"
               /\ opEnd' = "running"
               /\ UNCHANGED stderr
         [] command = "list-files" ->
               IF Len(args) < 2
               THEN /\ stderr' = print_usage(Append(stderr, TextItem(
                         "Error: repo_name is required for list-files command")))
                    /\ pc' = "done"
                    /\ UNCHANGED opEnd
               ELSE /\ pc' = "lf_detail_send"
                    /\ opEnd' = "running"
                    /\ UNCHANGED stderr
         [] command = "get-file-content" ->
               IF Len(args) < 3
               THEN /\ stderr' = print_usage(Append(stderr, TextItem(
                         "Error: repo_name and file_path are required for get-file-content command")))
                    /\ pc' = "done"
                    /\ UNCHANGED opEnd
               ELSE /\ pc' = "gfc_detail_send"
                    /\ opEnd' = "running"
                    /\ UNCHANGED stderr
         [] OTHER ->
               /\ stderr' = print_usage(stderr)
               /\ pc' = "done"
               /\ UNCHANGED opEnd
    /\ UNCHANGED <<args, env, headers, result, exc, branch, http, log, stdout>>

\* line 35, the request
get_repositories_send ==
    /\ pc = "repos_send"
    /\ Send("user/repos")
    /\ pc' = "repos_wait"
    /\ UNCHANGED <<args, env, headers, result, exc, opEnd, branch, log, stdout, stderr>>

\* lines 35-36, from the answer on
get_repositories_return ==
    /\ pc = "repos_wait"
    /\ \E r \in ReposResponses :
          /\ Receive("user/repos", r)
          /\ AfterCall(get_repositories_outcome(r))
    /\ UNCHANGED <<args, env, headers, branch, stdout, stderr>>

\* line 57, the request
list_files_details_send ==
    /\ pc = "lf_detail_send"
    /\ Send(DetailEndpoint(repo_name))
    /\ pc' = "lf_detail_wait"
    /\ UNCHANGED <<args, env, headers, result, exc, opEnd, branch, log, stdout, stderr>>

\* lines 57-61, from the answer on
list_files_details_return ==
    /\ pc = "lf_detail_wait"
    /\ \E r \in DetailResponses :
          /\ Receive(DetailEndpoint(repo_name), r)
          /\ LET o == list_files_details(r) IN
             IF o.kind = "continue"
             THEN /\ branch' = o.branch
                  /\ pc' = "lf_tree_send"
                  /\ UNCHANGED <<result, exc, opEnd>>
             ELSE /\ AfterCall(o)
                  /\ UNCHANGED branch
    /\ UNCHANGED <<args, env, headers, stdout, stderr>>

\* line 63, the request
list_files_tree_send ==
    /\ pc = "lf_tree_send"
    /\ Send(TreeEndpoint(repo_name, branch))
    /\ pc' = "lf_tree_wait"
    /\ UNCHANGED <<args, env, headers, result, exc, opEnd, branch, log, stdout, stderr>>

\* Variant of list_files_tree_return: a failed tree request is sent again.
list_files_tree_return_retry ==
    /\ pc = "lf_tree_wait"
    /\ \E r \in TreeResponses :
          /\ Receive(TreeEndpoint(repo_name, branch), r)
          /\ IF r.ok
             THEN AfterCall(list_files_tree(r))
             ELSE /\ pc' = "lf_tree_send"
                  /\ UNCHANGED <<result, exc, opEnd>>
    /\ UNCHANGED <<args, env, headers, branch, stdout, stderr>>

\* lines 63-69, from the answer on
list_files_tree_return ==
    /\ pc = "lf_tree_wait"
    /\ \E r \in TreeResponses :
          /\ Receive(TreeEndpoint(repo_name, branch), r)
          /\ AfterCall(list_files_tree(r))
    /\ UNCHANGED <<args, env, headers, branch, stdout, stderr>>

\* line 39, the request
get_file_content_details_send ==
    /\ pc = "gfc_detail_send"
    /\ Send(DetailEndpoint(repo_name))
    /\ pc' = "gfc_detail_wait"
    /\ UNCHANGED <<args, env, headers, result, exc, opEnd, branch, log, stdout, stderr>>

\* lines 39-43, from the answer on
get_file_content_details_return ==
    /\ pc = "gfc_detail_wait"
    /\ \E r \in DetailResponses :
          /\ Receive(DetailEndpoint(repo_name), r)
          /\ LET o == get_file_content_details(r) IN
             IF o.kind = "continue"
             THEN /\ branch' = o.branch
                  /\ pc' = "gfc_contents_send"
                  /\ UNCHANGED <<result, exc, opEnd>>
             ELSE /\ AfterCall(o)
                  /\ UNCHANGED branch
    /\ UNCHANGED <<args, env, headers, stdout, stderr>>

\* line 45, the request
get_file_content_contents_send ==
    /\ pc = "gfc_contents_send"
    /\ Send(ContentsEndpoint(repo_name, file_path, branch))
    /\ pc' = "gfc_contents_wait"
    /\ UNCHANGED <<args, env, headers, result, exc, opEnd, branch, log, stdout, stderr>>

\* lines 45-54, from the answer on
get_file_content_contents_return ==
    /\ pc = "gfc_contents_wait"
    /\ \E r \in ContentsResponses :
          /\ Receive(ContentsEndpoint(repo_name, file_path, branch), r)
          /\ AfterCall(get_file_content_contents(r, file_path, branch))
    /\ UNCHANGED <<args, env, headers, branch, stdout, stderr>>

\* line 121
main_print ==
    /\ pc = "print"
    /\ stdout' = Append(stdout, JsonItem(result))
    /\ pc' = "done"
    /\ UNCHANGED <<args, env, headers, result, exc, opEnd, branch, http, log, stderr>>

\* lines 123-124
main_except ==
    /\ pc = "except"
    /\ stderr' = Append(stderr, JsonItem(ErrorResult(
                     "An unexpected error occurred: " \o exc.msg)))
    /\ pc' = "done"
    /\ UNCHANGED <<args, env, headers, result, exc, opEnd, branch, http, log, stdout>>

Next ==
    \/ main_args
    \/ main_env
    \/ main_dispatch
    \/ get_repositories_send
    \/ get_repositories_return
    \/ list_files_details_send
    \/ list_files_details_return
    \/ list_files_tree_send
    \/ list_files_tree_return
    \/ get_file_content_details_send
    \/ get_file_content_details_return
    \/ get_file_content_contents_send
    \/ get_file_content_contents_return
    \/ main_print
    \/ main_except

Spec == Init /\ [][Next]_vars

(***************************************************************************)
(* Vocabulary of the properties.                                           *)
(***************************************************************************)
KnownCommands == {"list-repos", "list-files", "get-file-content"}
NoCommand == Len(args) = 0
UnknownCommand == Len(args) > 0 /\ args[1] \notin KnownCommands
IsCommand(c) == Len(args) > 0 /\ args[1] = c

\* The client operation main called (or is calling), by its arguments.
InGetFileContent == IsCommand("get-file-content") /\ Len(args) >= 3 /\ opEnd # "none"
InListFiles == IsCommand("list-files") /\ Len(args) >= 2 /\ opEnd # "none"
InGetRepositories == IsCommand("list-repos") /\ opEnd # "none"

IsRequest(e) == e.ev = "request"
IsResponse(e) == e.ev = "response"
Requests == SelectSeq(http, IsRequest)
Responses == SelectSeq(http, IsResponse)
NumRequests == Len(Requests)

\* The answers to the first and to the second request of the run.
HasFirstAnswer == Len(Responses) >= 1
FirstAnswer == Responses[1]
HasSecondAnswer == Len(Responses) >= 2
SecondAnswer == Responses[2]

IsErrorObject(j) ==
    /\ j.t = "object"
    /\ DOMAIN j.v = {"error"}
    /\ j.v.error.t = "string"
IsError(j, msg) == IsErrorObject(j) /\ j.v.error.v = msg

Ended == opEnd \in {"returned", "raised"}

(***************************************************************************)
(* C1 (as stated).  get_file_content: whenever the details lookup fails    *)
(* (the request fails, or its body is empty), the operation returns        *)
(* {error: "Repository not found"} and no further request is issued.       *)
(***************************************************************************)
C1_AsStated ==
    (/\ InGetFileContent
     /\ HasFirstAnswer
     /\ (~FirstAnswer.ok \/ ~Truthy(FirstAnswer.body)))
    => /\ opEnd = "returned"
       /\ IsError(result, "Repository not found")
       /\ NumRequests = 1

(***************************************************************************)
(* C1 (amended).  get_file_content: when the details request yields an     *)
(* empty body the operation returns {error: "Repository not found"}; when  *)
(* the details request fails the operation raises that failure and returns *)
(* no value; in both cases no contents request is issued.                  *)
(***************************************************************************)
C1_DetailsLookupFails ==
    (InGetFileContent /\ HasFirstAnswer)
    => /\ (FirstAnswer.ok /\ ~Truthy(FirstAnswer.body))
            => /\ opEnd = "returned"
               /\ IsError(result, "Repository not found")
               /\ NumRequests = 1
       /\ ~FirstAnswer.ok
            => /\ opEnd = "raised"
               /\ exc = FirstAnswer.exc
               /\ NumRequests = 1

C1_Witness ==
    /\ InGetFileContent
    /\ pc = "done"
    /\ HasFirstAnswer
    /\ FirstAnswer.ok
    /\ ~Truthy(FirstAnswer.body)
    /\ opEnd = "returned"

(***************************************************************************)
(* C2 (as stated).  list_files_in_repository never ends by raising: for    *)
(* every outcome of the details and tree requests it returns a value, and  *)
(* the value is an error result whenever the repository cannot be resolved *)
(* or a request it issued failed.                                          *)
(***************************************************************************)
C2_AsStated ==
    InListFiles
    => /\ opEnd # "raised"
       /\ (pc \in {"print", "except", "done", "crashed"}) => opEnd = "returned"
       /\ (/\ opEnd = "returned"
           /\ \/ ~FirstAnswer.ok
              \/ ~Truthy(FirstAnswer.body)
              \/ (HasSecondAnswer /\ ~SecondAnswer.ok))
          => IsErrorObject(result)

(***************************************************************************)
(* C2 (amended).  list_files_in_repository ends by raising exactly when    *)
(* the details request fails (the failure leaves the operation); for every *)
(* other outcome of the details and tree requests it returns a value, and  *)
(* the value is an error result whenever the details body is empty or the  *)
(* tree request failed.                                                    *)
(***************************************************************************)
C2_ListFilesOutcome ==
    InListFiles
    => /\ (pc \in {"print", "except", "done", "crashed"}) => Ended
       /\ Ended => HasFirstAnswer
       /\ Ended => (opEnd = "raised" <=> ~FirstAnswer.ok)
       /\ opEnd = "raised" => exc = FirstAnswer.exc
       /\ (/\ opEnd = "returned"
           /\ \/ ~Truthy(FirstAnswer.body)
              \/ (HasSecondAnswer /\ ~SecondAnswer.ok))
          => IsErrorObject(result)

C2_Witness ==
    /\ InListFiles
    /\ pc = "done"
    /\ HasSecondAnswer
    /\ ~SecondAnswer.ok
    /\ opEnd = "returned"
    /\ IsErrorObject(result)

(***************************************************************************)
(* The failure kinds of a run, told from its inputs and the answers it     *)
(* got.                                                                    *)
(***************************************************************************)
TokenUsable == env.present /\ env.value # ""

MissingArgument ==
    /\ TokenUsable
    /\ \/ IsCommand("list-files") /\ Len(args) < 2
       \/ IsCommand("get-file-content") /\ Len(args) < 3

UsageFailure == NoCommand \/ (TokenUsable /\ UnknownCommand) \/ MissingArgument

TransportFailure == \E i \in 1..Len(Responses) : ~Responses[i].ok

RepositoryNotFound ==
    /\ InListFiles \/ InGetFileContent
    /\ HasFirstAnswer
    /\ FirstAnswer.ok
    /\ ~Truthy(FirstAnswer.body)

FileNotFound ==
    /\ InGetFileContent
    /\ HasSecondAnswer
    /\ SecondAnswer.ok
    /\ ~Truthy(SecondAnswer.body) \/ ~Has(SecondAnswer.body, "content")

\* An exception inside the try block of the operation: a decode error, or
\* an unexpected one (a field missing from the answer).
RaisedInTry ==
    /\ HasSecondAnswer
    /\ SecondAnswer.ok
    /\ \/ /\ InGetFileContent
          /\ ~get_file_content_body(SecondAnswer.body, file_path, branch).ok
       \/ /\ InListFiles
          /\ ~list_files_body(SecondAnswer.body).ok

CommandFailed == TransportFailure \/ RepositoryNotFound \/ FileNotFound \/ RaisedInTry

\* Everything the run wrote, standard output first.
Shown == stdout \o stderr

IsJsonError(item) == item.kind = "json" /\ IsErrorObject(item.json)

(***************************************************************************)
(* C3.  For every invocation of main, JSON is written to standard output   *)
(* only when the command succeeded; whenever the command failed (the       *)
(* client returned an {error: ...} result or raised), the JSON error       *)
(* object is written to standard error and nothing to standard output.     *)
(***************************************************************************)
C3_ErrorsToStderr ==
    pc = "done"
    => /\ stdout # <<>> => (opEnd = "returned" /\ ~IsErrorObject(result))
       /\ (opEnd = "raised" \/ (opEnd = "returned" /\ IsErrorObject(result)))
            => /\ stdout = <<>>
               /\ \E i \in 1..Len(stderr) : IsJsonError(stderr[i])

(***************************************************************************)
(* C4 (as stated).  For every failure kind (missing argument, repository   *)
(* or file not found, decode error, transport/HTTP error in any request,   *)
(* any unexpected exception in dispatch), what the user sees is a JSON     *)
(* object with exactly one field error holding a string, and no exception  *)
(* escapes main.                                                           *)
(***************************************************************************)
C4_AsStated ==
    /\ pc # "crashed"
    /\ (pc = "done" /\ (MissingArgument \/ CommandFailed))
         => /\ Len(Shown) >= 1
            /\ \A i \in 1..Len(Shown) : IsJsonError(Shown[i])

(***************************************************************************)
(* C4 (amended).  No exception escapes main.  For every failure kind other *)
(* than a missing argument (repository or file not found, decode error,    *)
(* transport/HTTP error in any request, any unexpected exception in        *)
(* dispatch), what the user sees is one JSON object with exactly one field *)
(* error holding a string.  A missing argument is reported as a plain-text *)
(* message followed by the usage text, both on standard error.             *)
(***************************************************************************)
C4_FailuresAreJsonErrors ==
    /\ pc # "crashed"
    /\ (pc = "done" /\ CommandFailed)
         => /\ Len(Shown) = 1
            /\ IsJsonError(Shown[1])
    /\ (pc = "done" /\ MissingArgument)
         => /\ stdout = <<>>
            /\ Len(stderr) = 2
            /\ stderr[1].kind = "text"
            /\ stderr[2] = UsageItem

C4_Witness ==
    /\ pc = "done"
    /\ TransportFailure
    /\ opEnd = "raised"
    /\ Len(stderr) = 1
    /\ IsJsonError(stderr[1])

(***************************************************************************)
(* C5.  Every invocation of main that ends in a usage/validation failure   *)
(* (no command, unknown command, list-files with fewer than 1 positional   *)
(* argument, get-file-content with fewer than 2) writes its message to     *)
(* standard error, writes nothing to standard output, and invokes no       *)
(* client operation: zero HTTP requests are issued.                        *)
(***************************************************************************)
C5_UsageFailureInvokesNothing ==
    UsageFailure
    => /\ stdout = <<>>
       /\ opEnd = "none"
       /\ http = <<>>
       /\ pc \in {"main", "env", "dispatch", "done"}
       /\ pc = "done"
            => /\ Len(stderr) >= 1
               /\ stderr[Len(stderr)] = UsageItem

C5_Witness ==
    /\ pc = "done"
    /\ MissingArgument
    /\ Len(stderr) = 2
    /\ http = <<>>

(***************************************************************************)
(* C6 (as stated).  For every invocation of main whose command is missing  *)
(* or unknown, the usage text is printed and main returns normally,        *)
(* whatever the state of the environment (token present or absent).        *)
(***************************************************************************)
C6_AsStated ==
    (NoCommand \/ UnknownCommand)
    => /\ pc # "crashed"
       /\ pc = "done" => stderr = <<UsageItem>>

(***************************************************************************)
(* C6 (amended).  When the command is missing, the usage text is printed   *)
(* and main returns normally, whatever the token.  When the command is     *)
(* unknown, the usage text is printed and main returns normally if the     *)
(* token is present and not empty; if the token is absent or empty, main   *)
(* logs the missing credential and returns normally without printing the   *)
(* usage text.                                                             *)
(***************************************************************************)
C6_UsageOnMissingOrUnknown ==
    (NoCommand \/ UnknownCommand)
    => /\ pc \in {"main", "env", "dispatch", "done"}
       /\ (pc = "done" /\ (NoCommand \/ TokenUsable))
            => stderr = <<UsageItem>> /\ stdout = <<>>
       /\ (pc = "done" /\ UnknownCommand /\ ~TokenUsable)
            => stderr = <<>> /\ stdout = <<>> /\ Len(log) = 1

C6_Witness ==
    /\ pc = "done"
    /\ UnknownCommand
    /\ TokenUsable
    /\ stderr = <<UsageItem>>

(***************************************************************************)
(* C7.  In every run of main, at most 1 HTTP request is issued for         *)
(* list-repos and at most 2 for list-files and get-file-content, and in    *)
(* the file commands the two requests are strictly sequential: the details *)
(* request completes before the tree/contents request is issued.           *)
(***************************************************************************)
C7_RequestBudget ==
    /\ IsCommand("list-repos") => NumRequests <= 1
    /\ (IsCommand("list-files") \/ IsCommand("get-file-content")) => NumRequests <= 2
    /\ (NoCommand \/ UnknownCommand) => NumRequests = 0
    /\ \A i \in 1..Len(http) :
          /\ (IsRequest(http[i]) /\ i > 1)
                => /\ IsResponse(http[i - 1])
                   /\ http[i - 1].url = Url(DetailEndpoint(repo_name))
                   /\ http[i].url # http[i - 1].url
          /\ IsResponse(http[i])
                => /\ i > 1
                   /\ IsRequest(http[i - 1])
                   /\ http[i - 1].url = http[i].url

C7_Witness ==
    /\ pc = "done"
    /\ IsCommand("get-file-content")
    /\ NumRequests = 2
    /\ Len(Responses) = 2

(***************************************************************************)
(* C8.  For every list of repository records the user/repos request        *)
(* returns, get_repositories returns exactly the records whose             *)
(* permissions.push is true (a record with no permissions field, or with a *)
(* false or absent push flag, is left out), in upstream order and          *)
(* unmodified; for an empty upstream list it returns an empty sequence.    *)
(***************************************************************************)
Pushable(repo) ==
    /\ "permissions" \in DOMAIN repo.v
    /\ "push" \in DOMAIN repo.v.permissions.v
    /\ repo.v.permissions.v.push = JBool(TRUE)

MissingCredentialRun ==
    /\ pc \in {"main", "env", "done"}
    /\ stdout = <<>>
    /\ stderr = <<>>
    /\ http = <<>>
    /\ opEnd = "none"
    /\ pc = "done" => log = <<"GITHUB_TOKEN not found in environment variables">>

C9_AsStated ==
    (~env.present \/ env.value = "") => MissingCredentialRun

(***************************************************************************)
(* C9 (amended).  For every non-empty argument list, if the token          *)
(* environment variable is absent or empty then main logs the              *)
(* missing-credential condition and ends having produced no output         *)
(* (neither usage text nor JSON) and having issued no HTTP request.  (With *)
(* an empty argument list main prints the usage text before it reads the   *)
(* token.)                                                                 *)
(***************************************************************************)
C9_MissingCredential ==
    (Len(args) > 0 /\ (~env.present \/ env.value = "")) => MissingCredentialRun

C9_Witness ==
    /\ pc = "done"
    /\ Len(args) > 0
    /\ env.present
    /\ env.value = ""
    /\ Len(log) = 1

(***************************************************************************)
(* C10.  In get_file_content and list_files_in_repository the second       *)
(* request (contents or tree) is issued only after the details request     *)
(* returned successfully with a non-empty body, and the branch it names is *)
(* the default_branch value of that answer, or "main" when the answer has  *)
(* no default_branch field; the same branch appears in the error           *)
(* "File '<path>' not found on branch '<branch>'".                         *)
(***************************************************************************)
ExpectedBranch(body) ==
    IF "default_branch" \in DOMAIN body.v
    THEN body.v.default_branch.v
    ELSE "main"

C10_BranchOfSecondRequest ==
    (InListFiles \/ InGetFileContent)
    => /\ NumRequests >= 2
            => /\ HasFirstAnswer
               /\ IsResponse(http[2])
               /\ IsRequest(http[3])
               /\ FirstAnswer.ok
               /\ Truthy(FirstAnswer.body)
               /\ Requests[2].url =
                    IF InListFiles
                    THEN BASE_URL \o "/repos/" \o repo_name \o "/git/trees/"
                         \o ExpectedBranch(FirstAnswer.body) \o "?recursive=1"
                    ELSE BASE_URL \o "/repos/" \o repo_name \o "/contents/"
                         \o file_path \o "?ref=" \o ExpectedBranch(FirstAnswer.body)
       /\ FileNotFound
            => IsError(result, "File '" \o file_path \o "' not found on branch '"
                               \o ExpectedBranch(FirstAnswer.body) \o "'")

C10_Witness ==
    /\ InGetFileContent
    /\ pc = "done"
    /\ FileNotFound
    /\ "default_branch" \in DOMAIN FirstAnswer.body.v
    /\ FirstAnswer.body.v.default_branch.v = "develop"
    /\ IsErrorObject(result)

=============================================================================
